---- MODULE Spec2Model ----
(***************************************************************************)
(* The PDF text-extraction / translation service: the disk-backed server   *)
(* (src/server.js) and the memory-backed server (src/unnamed/part_000).    *)
(* One process runs one of the two servers (variant) under one NODE_ENV.   *)
(* Every request is a chain of run-to-completion steps separated by the    *)
(* handler's awaits: the upload middleware starting, the upload ending     *)
(* (and the handler running to `await pdf(...)`), the PDF parser settling,  *)
(* the translation provider settling.  The two external collaborators      *)
(* (pdf-parse, the MyMemory HTTP API) settle with a nondeterministically    *)
(* chosen outcome.                                                         *)
(***************************************************************************)
EXTENDS Integers, Sequences, FiniteSets, TLC

(* ------------------------------ bounds -------------------------------- *)
\* number of requests the server receives in one behaviour
MaxReqs == 2
\* last value Date.now() returns (it starts at 0 and never goes back)
MaxClock == 1

Reqs == 1..MaxReqs

(* ------------------------- program constants -------------------------- *)
fileSize == 10 * 1024 * 1024
\* /process-pdf translates only texts longer than this
AutoTranslateMin == 50
\* characters sent to the translation provider at most
TranslateLimit == 500
\* characters of the /process-pdf preview
PreviewLimit == 1000
\* axios timeouts, in ms
DiskTimeout == 10000
MemTimeout == 5000

(* ---------------------------- JS values ------------------------------- *)
\* A JS value: its kind and, for the kinds that have one, its literal.
JSUndef == [kind |-> "undefined", val |-> ""]
JSNull == [kind |-> "null", val |-> ""]
JSNum(lit) == [kind |-> "number", val |-> lit]
JSObj == [kind |-> "object", val |-> ""]
JSText(s) == [kind |-> "string", val |-> s]

\* ToBoolean(v)
Truthy(v) ==
  CASE v.kind = "undefined" -> FALSE
    [] v.kind = "null" -> FALSE
    [] v.kind = "number" -> v.val # "0"
    [] v.kind = "string" -> Len(v.val) > 0
    [] OTHER -> TRUE

\* typeof v
TypeOf(v) == IF v.kind = "null" THEN "object" ELSE v.kind

\* a = undefined ? dflt : a  (a destructuring default)
Default(v, dflt) == IF v.kind = "undefined" THEN dflt ELSE v

Min(a, b) == IF a < b THEN a ELSE b

\* s.substring(0, n)
Substring0(s, n) == SubSeq(s, 1, Min(n, Len(s)))

\* the characters lo..hi of a text whose characters differ with their position
RECURSIVE Chars(_, _)
Chars(lo, hi) ==
  IF lo > hi THEN ""
  ELSE IF lo = hi
       THEN (IF lo % 3 = 0 THEN "a" ELSE IF lo % 3 = 1 THEN "b" ELSE "c")
       ELSE Chars(lo, (lo + hi) \div 2) \o Chars(((lo + hi) \div 2) + 1, hi)
\* a text of n characters
Text(n) == Chars(1, n)

Ellipsis == "..."

(* ------------------------------ inputs -------------------------------- *)
Endpoints == {"extract-text", "translate", "process-pdf"}

\* the endpoints each server registers
Routes(v) == IF v = "disk" THEN {"extract-text", "translate"} ELSE Endpoints

PdfMime == "application/pdf"
FileNames == {"a.pdf"}

NoFile == [present |-> FALSE, mimetype |-> "", size |-> 0, originalname |-> ""]
\* the uploaded parts: a PDF of exactly the size limit, a PDF one byte beyond
\* it, and a part that is no PDF; all carry the same original name, the case
\* in which the stored path depends on Date.now() alone
Files ==
  {[present |-> TRUE, mimetype |-> PdfMime, size |-> fileSize, originalname |-> n] :
     n \in FileNames}
  \cup
  {[present |-> TRUE, mimetype |-> PdfMime, size |-> fileSize + 1, originalname |-> n] :
     n \in FileNames}
  \cup
  {[present |-> TRUE, mimetype |-> "text/plain", size |-> fileSize, originalname |-> n] :
     n \in FileNames}

Hello == "hello"
Hola == "hola"

\* req.body.text of a /translate request
BodyTexts == {JSUndef, JSNull, JSNum("5"), JSObj, JSText(""), JSText(Hello)}
\* req.body.fromLang, req.body.toLang
BodyLangs == {<<JSUndef, JSText("fr")>>}

NoBody == [text |-> JSUndef, fromLang |-> JSUndef, toLang |-> JSUndef]

\* what pdf-parse may extract: lengths around every threshold of the code
TextLengths ==
  {AutoTranslateMin, AutoTranslateMin + 1, PreviewLimit, PreviewLimit + 1}
PageCounts == {3}
NoData == [text |-> "", numpages |-> 0]
\* what `await pdf(buffer)` settles with: a rejection or { text, numpages }
PdfOutcomes ==
  {[ok |-> FALSE, data |-> NoData]}
    \cup {[ok |-> TRUE, data |-> [text |-> Text(n), numpages |-> k]] :
            n \in TextLengths, k \in PageCounts}

\* what the axios call to the provider may settle with
NoReply ==
  [present |-> FALSE, hasResponseData |-> FALSE, translatedText |-> JSUndef,
   responseStatus |-> ""]
ProviderOutcomes ==
  { [kind |-> "timeout", data |-> NoReply],
    [kind |-> "network", data |-> NoReply],
    \* 2xx, the expected shape
    [kind |-> "ok",
     data |-> [present |-> TRUE, hasResponseData |-> TRUE,
               translatedText |-> JSText(Hola), responseStatus |-> "200"]],
    \* 2xx, responseData without translatedText
    [kind |-> "ok",
     data |-> [present |-> TRUE, hasResponseData |-> TRUE,
               translatedText |-> JSUndef, responseStatus |-> "403"]],
    \* 2xx, no responseData and no responseStatus
    [kind |-> "ok",
     data |-> [present |-> TRUE, hasResponseData |-> FALSE,
               translatedText |-> JSUndef, responseStatus |-> ""]] }
Pending == [kind |-> "pending", data |-> NoReply]

(* ------------------------------- state -------------------------------- *)
VARIABLES
  variant,    \* "disk" (server.js) or "memory" (part_000)
  NODE_ENV,   \* process.env.NODE_ENV
  disk,       \* ./uploads: path -> the requests whose upload opened the file
  pc,         \* per request: where its handling stands
  endpoint,   \* per request: the route
  file,       \* per request: the uploaded file part
  path,       \* per request: req.file.path (disk storage)
  body,       \* per request: req.body
  data,       \* per /process-pdf request: the result of pdf(...)
  pdfCalls,   \* per request: invocations of pdf(...)
  calls,      \* per request: the axios calls made to the provider
  resps       \* per request: the responses sent

vars ==
  <<variant, NODE_ENV, disk, pc, endpoint, file, path, body, data,
    pdfCalls, calls, resps>>

Paths == (0..MaxClock) \X FileNames
NoPath == <<-1, "">>

Init ==
  /\ variant \in {"disk", "memory"}
  /\ NODE_ENV \in {"development", "production"}
  /\ disk = [p \in Paths |-> {}]
  /\ pc = [r \in Reqs |-> "idle"]
  /\ endpoint = [r \in Reqs |-> "none"]
  /\ file = [r \in Reqs |-> NoFile]
  /\ path = [r \in Reqs |-> NoPath]
  /\ body = [r \in Reqs |-> NoBody]
  /\ data = [r \in Reqs |-> NoData]
  /\ pdfCalls = [r \in Reqs |-> 0]
  /\ calls = [r \in Reqs |-> <<>>]
  /\ resps = [r \in Reqs |-> <<>>]

(* ----------------------------- responses ------------------------------ *)
NoDetails == [kind |-> "undefined", message |-> "", stack |-> FALSE]
\* details: err.message
DetailsMessage(err) == [kind |-> "string", message |-> err.message, stack |-> FALSE]
\* details: { message: err.message, stack: err.stack }
DetailsObject(err) == [kind |-> "object", message |-> err.message, stack |-> TRUE]

Error(msg) == [message |-> msg]

BaseResp ==
  [by |-> "handler", status |-> 200, json |-> TRUE, keys |-> {},
   success |-> FALSE, error |-> "", details |-> NoDetails, text |-> "",
   pages |-> 0, textLength |-> 0, extractedText |-> "",
   translatedText |-> JSUndef, characters |-> 0]

\* res.json(obj): JSON.stringify leaves out the keys whose value is undefined
Json(obj, fields) ==
  [obj EXCEPT !.keys =
     {k \in fields :
        CASE k = "details" -> obj.details.kind # "undefined"
          [] k = "translatedText" -> obj.translatedText.kind # "undefined"
          [] OTHER -> TRUE}]

\* res.status(400).json({ success: false, error: 'No PDF file uploaded' })
NoFileResponse ==
  Json([BaseResp EXCEPT !.status = 400, !.error = "No PDF file uploaded"],
       {"success", "error"})

\* res.status(400).json({ success: false, error: 'Valid text is required ...' })
InvalidTextResponse ==
  Json([BaseResp EXCEPT !.status = 400,
                        !.error = "Valid text is required for translation"],
       {"success", "error"})

\* server.js: the 500 of a catch block or of the error middleware
DiskFailure(by, context, err) ==
  Json([BaseResp EXCEPT !.by = by, !.status = 500, !.error = context,
                        !.details = DetailsMessage(err)],
       {"success", "error", "details"})

\* server.js, app.use((err, req, res, next) => ...)
errorMiddleware(err) == DiskFailure("errorMiddleware", "Internal server error", err)

\* part_000 registers no error middleware: Express's default handler answers
\* with an HTML page, status err.status or 500
expressDefault(err) ==
  [BaseResp EXCEPT !.by = "expressDefault", !.status = 500, !.json = FALSE]

\* part_000, handleError(res, err, context)
handleError(env, err, context) ==
  Json([BaseResp EXCEPT !.status = 500, !.error = context,
          !.details = IF env = "development" THEN DetailsObject(err) ELSE NoDetails],
       {"success", "error", "details"})

\* part_000, the catch block of /process-pdf
processPdfCatch(env, err) ==
  Json([BaseResp EXCEPT !.status = 500, !.error = "PDF processing failed",
          !.details = IF env = "development" THEN DetailsMessage(err) ELSE NoDetails],
       {"success", "error", "details"})

\* server.js, /extract-text: res.status(200).json({ success: true, text })
DiskExtractResponse(d) ==
  Json([BaseResp EXCEPT !.success = TRUE, !.text = d.text], {"success", "text"})

\* part_000, /extract-text: res.json({ success, text, pages, textLength })
MemExtractResponse(d) ==
  Json([BaseResp EXCEPT !.success = TRUE, !.text = d.text, !.pages = d.numpages,
                        !.textLength = Len(d.text)],
       {"success", "text", "pages", "textLength"})

\* server.js, /translate: res.status(200).json({ success, translatedText })
DiskTranslateResponse(reply) ==
  Json([BaseResp EXCEPT !.success = TRUE, !.translatedText = reply.translatedText],
       {"success", "translatedText"})

\* part_000, /translate: res.json({ success, translatedText, characters })
MemTranslateResponse(result, text) ==
  Json([BaseResp EXCEPT !.success = TRUE, !.translatedText = result,
                        !.characters = Len(text)],
       {"success", "translatedText", "characters"})

\* Preview that marks a text of exactly the limit as truncated
PreviewAtLimit(extractedText) ==
  Substring0(extractedText, PreviewLimit)
    \o (IF Len(extractedText) >= PreviewLimit THEN Ellipsis ELSE "")

\* part_000, /process-pdf: extractedText.substring(0, 1000) + (length > 1000 ? '...' : '')
Preview(extractedText) ==
  Substring0(extractedText, PreviewLimit)
    \o (IF Len(extractedText) > PreviewLimit THEN Ellipsis ELSE "")

\* part_000, /process-pdf: res.json({ success, metadata, extractedText, ... })
ProcessPdfResponse(d, translation) ==
  Json([BaseResp EXCEPT !.success = TRUE, !.pages = d.numpages,
                        !.textLength = Len(d.text),
                        !.extractedText = Preview(d.text),
                        !.translatedText = translation],
       {"success", "metadata", "extractedText", "translatedText", "downloadLink"})

(* --------------------------- the file system --------------------------- *)
\* ./uploads maps a path to the set of requests whose upload opened a file
\* there and has not been unlinked since; the empty set is no file.
\* fs.existsSync(p)
existsSync(d, p) == p \in DOMAIN d /\ d[p] # {}
\* the directory after fs.unlinkSync(p) succeeded
Unlinked(d, p) == IF p \in DOMAIN d THEN [d EXCEPT ![p] = {}] ELSE d
\* the directory after fs.createWriteStream(p) by request r opened the file
Opened(d, p, r) == [d EXCEPT ![p] = @ \cup {r}]

(* ------------------------- results of one step ------------------------- *)
\* What a run-to-completion step leaves: the directory, the request's next
\* position and the responses it sent.
Answer(d, resp) == [disk |-> d, pc |-> "done", out |-> <<resp>>]
\* the async handler's promise rejected: Express 4 never answers
Unhandled(d) == [disk |-> d, pc |-> "unhandled", out |-> <<>>]
Await(d, where) == [disk |-> d, pc |-> where, out |-> <<>>]

Apply(r, res) ==
  /\ disk' = res.disk
  /\ pc' = [pc EXCEPT ![r] = res.pc]
  /\ resps' = [resps EXCEPT ![r] = @ \o res.out]

(* ---------------------------- upload (multer) -------------------------- *)
\* fileFilter that accepts every part
fileFilterAny(f) == TRUE

\* fileFilter: cb(null, true) iff the part's MIME type is the PDF one
fileFilter(f) == f.mimetype = PdfMime

\* limits.fileSize: the part is cut and LIMIT_FILE_SIZE raised beyond it
overLimit(f) == f.size > fileSize

\* the message of the error fileFilter hands to cb
fileFilterError(v) ==
  IF v = "disk" THEN Error("Only PDF files are allowed!")
  ELSE Error("Only PDF files are allowed (max 10MB)")

\* diskStorage filename: `${Date.now()}-${file.originalname}` under ./uploads
filename(t, f) == <<t, f.originalname>>

\* next(err) out of the upload middleware: the route handler is skipped
uploadError(v, d, err) ==
  IF v = "disk" THEN Answer(d, errorMiddleware(err))
  ELSE Answer(d, expressDefault(err))

(* ------------------------ server.js, /extract-text --------------------- *)
\* extractCatch without its cleanup: answers 500 and leaves the upload behind
extractCatchLeak(r, d, err, unlinkOk) ==
  Answer(d, DiskFailure("handler", "Failed to process PDF", err))

\* the catch block: unlink the upload if it is still there, then answer 500;
\* unlinkOk tells whether that unlinkSync succeeds
extractCatch(r, d, err, unlinkOk) ==
  IF file[r].present /\ existsSync(d, path[r])
  THEN IF unlinkOk
       THEN Answer(Unlinked(d, path[r]),
                   DiskFailure("handler", "Failed to process PDF", err))
       ELSE Unhandled(d)
  ELSE Answer(d, DiskFailure("handler", "Failed to process PDF", err))

\* after `await pdf(dataBuffer)` resolved: unlinkSync, then answer 200
extractAfterPdf(r, d, parsed, unlinkOk, catchUnlinkOk) ==
  IF existsSync(d, path[r]) /\ unlinkOk
  THEN Answer(Unlinked(d, path[r]), DiskExtractResponse(parsed))
  ELSE extractCatch(r, d,
         Error(IF existsSync(d, path[r]) THEN "EPERM" ELSE "ENOENT"),
         catchUnlinkOk)

(* ------------------------------ /translate ----------------------------- *)
\* validText without the typeof test
validTextTruthy(text) == Truthy(text)

\* !text || typeof text !== 'string' is false
validText(text) == Truthy(text) /\ TypeOf(text) = "string"

\* the axios.get issued for a request
\* server.js: q = text.length > 500 ? text.substring(0, 500) : text
diskCall(text, fromLang, toLang) ==
  [q |-> IF Len(text) > TranslateLimit THEN Substring0(text, TranslateLimit)
         ELSE text,
   langpair |-> <<fromLang, toLang>>, timeout |-> DiskTimeout,
   reply |-> Pending]
\* part_000, translateText: q = text.substring(0, 500)
translateTextCall(text, fromLang, toLang) ==
  [q |-> Substring0(text, TranslateLimit), langpair |-> <<fromLang, toLang>>,
   timeout |-> MemTimeout, reply |-> Pending]

\* the error axios rejects with
axiosError(o, timeout) ==
  IF o.kind = "timeout"
  THEN Error(IF timeout = DiskTimeout THEN "timeout of 10000ms exceeded"
             ELSE "timeout of 5000ms exceeded")
  ELSE Error("Network Error")

\* translateCatch that names the failure after the error it caught
translateCatchRaw(err) == DiskFailure("handler", err.message, err)

\* server.js, the catch block of /translate
translateCatch(err) == DiskFailure("handler", "Translation failed", err)

\* server.js, /translate after `await axios.get(...)` settled
diskTranslateSettled(o) ==
  IF o.kind # "ok" THEN translateCatch(axiosError(o, DiskTimeout))
  ELSE IF o.data.present /\ o.data.hasResponseData
       THEN DiskTranslateResponse(o.data)
       ELSE translateCatch(Error("Invalid response from translation service"))

\* part_000, translateText after `await axios.get(...)` settled:
\* [ok |-> TRUE, value |-> the translated text] or [ok |-> FALSE, err |-> ...]
translateTextSettled(o) ==
  IF o.kind # "ok" THEN [ok |-> FALSE, err |-> axiosError(o, MemTimeout), value |-> JSUndef]
  ELSE IF ~(o.data.present /\ o.data.hasResponseData /\ Truthy(o.data.translatedText))
       THEN [ok |-> FALSE,
             err |-> Error(IF o.data.present /\ o.data.responseStatus # ""
                           THEN o.data.responseStatus
                           ELSE "Translation service error"),
             value |-> JSUndef]
       ELSE [ok |-> TRUE, err |-> Error(""), value |-> o.data.translatedText]

\* part_000, /translate after translateText settled
memTranslateSettled(env, o, text) ==
  LET t == translateTextSettled(o) IN
  IF t.ok THEN MemTranslateResponse(t.value, text)
  ELSE handleError(env, t.err, "Translation failed")

(* ------------------------ part_000, /process-pdf ----------------------- *)
\* shouldTranslate with >= for >
shouldTranslateFrom(extractedText) == Len(extractedText) >= AutoTranslateMin

\* extractedText.length > 50
shouldTranslate(extractedText) == Len(extractedText) > AutoTranslateMin

\* translateText(extractedText.substring(0, 500), 'auto', 'en')
processPdfCall(extractedText) ==
  translateTextCall(Substring0(extractedText, TranslateLimit),
                    "auto", "en")

\* /process-pdf after translateText settled
processPdfSettled(env, o, d) ==
  LET t == translateTextSettled(o) IN
  IF t.ok THEN ProcessPdfResponse(d, t.value)
  ELSE processPdfCatch(env, t.err)

(* ------------------------------ actions -------------------------------- *)
\* requests are numbered in the order they arrive
MayArrive(r) == pc[r] = "idle" /\ (IF r = 1 THEN TRUE ELSE pc[r - 1] # "idle")

\* Date.now(): no earlier than any value it returned before
Stamps == {path[r][1] : r \in Reqs} \cup {0}
DateNow == {t \in 0..MaxClock : \A u \in Stamps : u <= t}

\* POST /extract-text or /process-pdf arrives and upload.single('pdf') starts:
\* no file part (the handler answers 400), a part fileFilter refuses, or a
\* part the storage starts to take in
ArriveUpload(r) ==
  /\ MayArrive(r)
  /\ \E e \in Routes(variant) \ {"translate"}, f \in Files \cup {NoFile},
        now \in (IF variant = "disk" THEN DateNow ELSE {0}) :
       /\ endpoint' = [endpoint EXCEPT ![r] = e]
       /\ file' = [file EXCEPT ![r] = f]
       /\ IF ~f.present
          THEN /\ Apply(r, Answer(disk, NoFileResponse))
               /\ UNCHANGED path
          ELSE IF ~fileFilter(f)
          THEN /\ Apply(r, uploadError(variant, disk, fileFilterError(variant)))
               /\ UNCHANGED path
          ELSE IF variant = "disk"
          THEN /\ path' = [path EXCEPT ![r] = filename(now, f)]
               /\ Apply(r, Await(Opened(disk, filename(now, f), r), "uploading"))
          ELSE /\ Apply(r, Await(disk, "uploading"))
               /\ UNCHANGED path
  /\ UNCHANGED <<variant, NODE_ENV, body, data, pdfCalls, calls>>

\* the part has been taken in: beyond limits.fileSize multer removes what it
\* stored and passes the error on; otherwise the route handler runs up to
\* `await pdf(...)` (the disk server reads the file first)
UploadEnd(r) ==
  /\ pc[r] = "uploading"
  /\ IF overLimit(file[r])
     THEN /\ Apply(r, uploadError(variant,
                                  IF variant = "disk" THEN Unlinked(disk, path[r])
                                  ELSE disk,
                                  Error("File too large")))
          /\ UNCHANGED pdfCalls
     ELSE IF variant = "disk"
     THEN \E readOk, catchUnlinkOk \in BOOLEAN :
            IF existsSync(disk, path[r]) /\ readOk
            THEN /\ pdfCalls' = [pdfCalls EXCEPT ![r] = @ + 1]
                 /\ Apply(r, Await(disk, "awaitPdf"))
            ELSE /\ Apply(r, extractCatch(r, disk,
                               Error(IF existsSync(disk, path[r]) THEN "EIO"
                                     ELSE "ENOENT"),
                               catchUnlinkOk))
                 /\ UNCHANGED pdfCalls
     ELSE /\ pdfCalls' = [pdfCalls EXCEPT ![r] = @ + 1]
          /\ Apply(r, Await(disk, "awaitPdf"))
  /\ UNCHANGED <<variant, NODE_ENV, endpoint, file, path, body, data, calls>>

\* `await pdf(...)` settles and the handler runs on to its next await or to
\* its response
PdfSettle(r) ==
  /\ pc[r] = "awaitPdf"
  /\ \E o \in PdfOutcomes, unlinkOk, catchUnlinkOk \in BOOLEAN :
       LET err == Error("Invalid PDF structure") IN
       IF variant = "disk"
       THEN /\ Apply(r, IF o.ok
                        THEN extractAfterPdf(r, disk, o.data, unlinkOk, catchUnlinkOk)
                        ELSE extractCatch(r, disk, err, catchUnlinkOk))
            /\ UNCHANGED <<data, calls>>
       ELSE IF endpoint[r] = "extract-text"
       THEN /\ Apply(r, Answer(disk,
                          IF o.ok THEN MemExtractResponse(o.data)
                          ELSE handleError(NODE_ENV, err, "Text extraction failed")))
            /\ UNCHANGED <<data, calls>>
       ELSE /\ data' = [data EXCEPT ![r] = o.data]
            /\ IF ~o.ok
               THEN /\ Apply(r, Answer(disk, processPdfCatch(NODE_ENV, err)))
                    /\ UNCHANGED calls
               ELSE IF shouldTranslate(o.data.text)
               THEN /\ calls' = [calls EXCEPT ![r] =
                                   Append(@, processPdfCall(o.data.text))]
                    /\ Apply(r, Await(disk, "awaitTranslate"))
               ELSE /\ Apply(r, Answer(disk, ProcessPdfResponse(o.data, JSText(""))))
                    /\ UNCHANGED calls
  /\ UNCHANGED <<variant, NODE_ENV, endpoint, file, path, body, pdfCalls>>

\* POST /translate arrives: the handler validates req.body.text and either
\* answers 400 or issues the axios call
ArriveTranslate(r) ==
  /\ MayArrive(r)
  /\ \E text \in BodyTexts, langs \in BodyLangs :
       LET fromLang == Default(langs[1], JSText(IF variant = "disk" THEN "en"
                                                ELSE "auto")).val
           toLang == Default(langs[2], JSText(IF variant = "disk" THEN "es"
                                              ELSE "en")).val
       IN
       /\ endpoint' = [endpoint EXCEPT ![r] = "translate"]
       /\ body' = [body EXCEPT ![r] =
                     [text |-> text, fromLang |-> langs[1], toLang |-> langs[2]]]
       /\ IF ~validText(text)
          THEN /\ Apply(r, Answer(disk, InvalidTextResponse))
               /\ UNCHANGED calls
          ELSE /\ calls' = [calls EXCEPT ![r] = Append(@,
                              IF variant = "disk"
                              THEN diskCall(text.val, fromLang, toLang)
                              ELSE translateTextCall(text.val, fromLang, toLang))]
               /\ Apply(r, Await(disk, "awaitTranslate"))
  /\ UNCHANGED <<variant, NODE_ENV, file, path, data, pdfCalls>>

\* the axios call settles (with a reply, a network failure or its timeout)
\* and the handler runs on to its response
TranslateSettle(r) ==
  /\ pc[r] = "awaitTranslate"
  /\ \E o \in ProviderOutcomes :
       /\ calls' = [calls EXCEPT ![r][Len(calls[r])].reply = o]
       /\ Apply(r, Answer(disk,
            IF variant = "disk" THEN diskTranslateSettled(o)
            ELSE IF endpoint[r] = "translate"
            THEN memTranslateSettled(NODE_ENV, o, body[r].text.val)
            ELSE processPdfSettled(NODE_ENV, o, data[r])))
  /\ UNCHANGED <<variant, NODE_ENV, endpoint, file, path, body, data, pdfCalls>>

Next ==
  \/ \E r \in Reqs : ArriveUpload(r)
  \/ \E r \in Reqs : UploadEnd(r)
  \/ \E r \in Reqs : PdfSettle(r)
  \/ \E r \in Reqs : ArriveTranslate(r)
  \/ \E r \in Reqs : TranslateSettle(r)

Spec == Init /\ [][Next]_vars

\* axios settles every call it was given: each call carries a timeout
LiveSpec ==
  /\ Spec
  /\ \A r \in Reqs :
       WF_vars(TranslateSettle(r))

(* ------------------------------- claims -------------------------------- *)
Answered(r) == pc[r] = "done"
\* the response request r received (it is answered)
Resp(r) == resps[r][1]
IsPrefix(p, t) == Len(p) <= Len(t) /\ SubSeq(t, 1, Len(p)) = p
StoredUpload(r) == variant = "disk" /\ path[r] # NoPath

\* C1: disk server, /extract-text: once a request whose upload was stored on
\* disk has been answered, the file written for it is no longer in ./uploads
\* (the directory entry at its path, if any, was opened by other requests).
C1_TempFileGone ==
  \A r \in Reqs :
    (StoredUpload(r) /\ endpoint[r] = "extract-text" /\ Len(resps[r]) > 0)
      => r \notin disk[path[r]]

\* a request whose stored upload reached the parser and that was answered
\* 500 by the handler's catch block, next to one answered 200
C1_Witness ==
  /\ \E r \in Reqs :
       /\ StoredUpload(r) /\ Answered(r) /\ pdfCalls[r] = 1
       /\ Resp(r).status = 500 /\ Resp(r).by = "handler"
  /\ \E r \in Reqs : StoredUpload(r) /\ Answered(r) /\ Resp(r).status = 200

\* C2: outside development mode no failure response carries `details`, and
\* in development mode the failure responses that report an error caught by
\* the server (the JSON 500s) carry it.
C2_DetailsOnlyInDevelopment ==
  \A r \in Reqs :
    (Answered(r) /\ Resp(r).status >= 400)
      => /\ NODE_ENV # "development" => "details" \notin Resp(r).keys
         /\ (NODE_ENV = "development" /\ Resp(r).status = 500 /\ Resp(r).json)
              => "details" \in Resp(r).keys

\* C3: every request that ends in failure is answered, and with a JSON
\* envelope holding success: false and a non-empty error string.
C3_FailureEnvelope ==
  \A r \in Reqs :
    /\ pc[r] # "unhandled"
    /\ (Answered(r) /\ Resp(r).status >= 400)
         => /\ Resp(r).json
            /\ {"success", "error"} \subseteq Resp(r).keys
            /\ ~Resp(r).success
            /\ Resp(r).error # ""

\* C4: an upload that is no PDF or is larger than 10 MiB never reaches
\* pdf(...): the request goes from the upload straight to an error response.
C4_RejectedBeforeExtraction ==
  \A r \in Reqs :
    (file[r].present
       /\ (file[r].mimetype # "application/pdf" \/ file[r].size > 10 * 1024 * 1024))
      => /\ pdfCalls[r] = 0
         /\ pc[r] \in {"uploading", "done"}
         /\ Answered(r)
              => /\ Len(resps[r]) = 1
                 /\ Resp(r).status >= 400
                 /\ ~Resp(r).success

\* an oversized PDF and a part that is no PDF, both answered
C4_Witness ==
  /\ \E r \in Reqs :
       /\ Answered(r) /\ file[r].present
       /\ file[r].mimetype = PdfMime /\ file[r].size > fileSize
  /\ \E r \in Reqs :
       Answered(r) /\ file[r].present /\ file[r].mimetype # PdfMime

\* C5: POST /translate whose text is missing, empty or no string is answered
\* 400 with success: false, and no call to the provider is made for it.
C5_InvalidTextRejected ==
  \A r \in Reqs :
    (endpoint[r] = "translate"
       /\ (body[r].text.kind # "string" \/ body[r].text.val = ""))
      => /\ calls[r] = <<>>
         /\ Answered(r)
         /\ Len(resps[r]) = 1
         /\ Resp(r).status = 400
         /\ "success" \in Resp(r).keys /\ ~Resp(r).success

\* a number and the empty string were both sent as text
C5_Witness ==
  /\ \E r \in Reqs :
       endpoint[r] = "translate" /\ body[r].text.kind = "number" /\ Answered(r)
  /\ \E r \in Reqs :
       endpoint[r] = "translate" /\ body[r].text = JSText("") /\ Answered(r)

\* C6: a successful /process-pdf made no translation call and has
\* translatedText "" when the extracted text has at most 50 characters, and
\* otherwise made exactly one call, on a prefix of the text of at most 500
\* characters, from 'auto' to 'en'.
C6_AutoTranslate ==
  \A r \in Reqs :
    (endpoint[r] = "process-pdf" /\ Answered(r) /\ Resp(r).status = 200)
      => IF Len(data[r].text) <= AutoTranslateMin
         THEN /\ calls[r] = <<>>
              /\ "translatedText" \in Resp(r).keys
              /\ Resp(r).translatedText = JSText("")
         ELSE /\ Len(calls[r]) = 1
              /\ IsPrefix(calls[r][1].q, data[r].text)
              /\ Len(calls[r][1].q) <= TranslateLimit
              /\ calls[r][1].langpair = <<"auto", "en">>

\* a text of exactly 50 characters and a text of more than 500, both
\* processed successfully
C6_Witness ==
  /\ \E r \in Reqs :
       /\ endpoint[r] = "process-pdf" /\ Answered(r) /\ Resp(r).status = 200
       /\ Len(data[r].text) = AutoTranslateMin
  /\ \E r \in Reqs :
       /\ endpoint[r] = "process-pdf" /\ Answered(r) /\ Resp(r).status = 200
       /\ Len(data[r].text) > TranslateLimit
       /\ Resp(r).translatedText = JSText(Hola)

\* C7: in a successful /process-pdf response extractedText is the first 1000
\* characters of the text followed by "..." when the text is longer than
\* 1000 characters and the text itself otherwise; textLength is the length
\* of the whole text.
C7_Preview ==
  \A r \in Reqs :
    (endpoint[r] = "process-pdf" /\ Answered(r) /\ Resp(r).status = 200)
      => LET t == data[r].text IN
         /\ Resp(r).extractedText =
              (IF Len(t) > PreviewLimit THEN SubSeq(t, 1, PreviewLimit) \o "..."
               ELSE t)
         /\ Resp(r).textLength = Len(t)

\* a text of exactly 1000 characters and one of 1001, both processed
\* successfully
C7_Witness ==
  /\ \E r \in Reqs :
       /\ endpoint[r] = "process-pdf" /\ Answered(r) /\ Resp(r).status = 200
       /\ Len(data[r].text) = PreviewLimit
  /\ \E r \in Reqs :
       /\ endpoint[r] = "process-pdf" /\ Answered(r) /\ Resp(r).status = 200
       /\ Len(data[r].text) = PreviewLimit + 1
       /\ Len(Resp(r).extractedText) = PreviewLimit + 3

ProviderFailed(r) ==
  /\ calls[r] # <<>>
  /\ calls[r][1].reply.kind \in {"timeout", "network"}

\* the part of C8 that holds in every state
C8_Safe ==
  \A r \in Reqs :
    /\ endpoint[r] = "translate" => Len(calls[r]) <= 1 /\ Len(resps[r]) <= 1
    /\ (endpoint[r] = "translate" /\ ProviderFailed(r))
         => /\ Answered(r)
            /\ Len(resps[r]) = 1
            /\ Resp(r).status = 500
            /\ "success" \in Resp(r).keys /\ ~Resp(r).success
            /\ Resp(r).error = "Translation failed"

\* C8: a /translate request with valid text whose provider call times out
\* or fails in the network receives exactly one response, 500 with
\* success: false and error "Translation failed"; no second call is made,
\* and a request waiting for the provider is eventually answered.
C8_TranslationFailure ==
  /\ []C8_Safe
  /\ \A r \in Reqs :
       (endpoint[r] = "translate" /\ pc[r] = "awaitTranslate") ~> Answered(r)

\* a /translate request whose call timed out and one whose call failed in
\* the network
C8_Witness ==
  /\ \E r \in Reqs :
       /\ endpoint[r] = "translate" /\ Answered(r)
       /\ calls[r] # <<>> /\ calls[r][1].reply.kind = "timeout"
  /\ \E r \in Reqs :
       /\ endpoint[r] = "translate" /\ Answered(r)
       /\ calls[r] # <<>> /\ calls[r][1].reply.kind = "network"

\* C9: when the provider's 2xx reply lacks the translated text, the endpoint
\* answers 500 with success: false (never 200 without translatedText).
C9_MissingFieldFails ==
  \A r \in Reqs :
    (calls[r] # <<>> /\ calls[r][1].reply.kind = "ok"
       /\ calls[r][1].reply.data.translatedText.kind = "undefined")
      => /\ Answered(r)
         /\ Resp(r).status = 500
         /\ ~Resp(r).success

\* C10: two uploads in flight at the same time have distinct temporary paths.
InFlight(r) == pc[r] \in {"uploading", "awaitPdf"}
C10_DistinctPaths ==
  \A r1, r2 \in Reqs :
    (r1 # r2 /\ StoredUpload(r1) /\ StoredUpload(r2) /\ InFlight(r1) /\ InFlight(r2))
      => path[r1] # path[r2]

====
